---------------------------- MODULE Spec2Model ----------------------------
(***************************************************************************)
(* Model of quacc's concurrent NEB band (ConcurrentNEB.get_forces) and of  *)
(* the part of neb_flow that prepares its arguments.                       *)
(*                                                                         *)
(* An image is a configuration (one integer coordinate stands for          *)
(* positions/species/cell) and an attached calculator.  A python dict is   *)
(* a function from key strings to tagged values: a leaf [kind |-> "leaf",  *)
(* val |-> n] or a nested dict [kind |-> "dict", val |-> d].               *)
(***************************************************************************)
EXTENDS Integers, Sequences, FiniteSets, TLC

\* ------------------------------------------------------------------ bounds
NImages == 3
MaxPos == 1
MaxMoves == 2

Idx == 0 .. (NImages - 1)
Pos == 0 .. MaxPos
Endpoints == {0, NImages - 1}
Interior == Idx \ Endpoints

\* ------------------------------------------------------------ python dicts
Leaf(n) == [kind |-> "leaf", val |-> n]
Dict(d) == [kind |-> "dict", val |-> d]
None == [kind |-> "none"]
EmptyDict == <<>>

\* quacc.utils.dicts.recursive_dict_merge, pairwise step: keys of the second
\* dict win, two nested dicts under one key are merged key by key.
RECURSIVE recursive_dict_pair_merge(_, _)
recursive_dict_pair_merge(d1, d2) ==
    [k \in (DOMAIN d1) \cup (DOMAIN d2) |->
        IF k \notin DOMAIN d2 THEN d1[k]
        ELSE IF k \notin DOMAIN d1 THEN d2[k]
        ELSE IF d1[k].kind = "dict" /\ d2[k].kind = "dict"
             THEN Dict(recursive_dict_pair_merge(d1[k].val, d2[k].val))
             ELSE d2[k]]

\* recursive_dict_merge(*dicts) for three dicts: left to right, increasing
\* precedence.
recursive_dict_merge(a, b, c) ==
    recursive_dict_pair_merge(recursive_dict_pair_merge(a, b), c)

\* ------------------------------------------------------------- neb_flow
\* `x or {}` of neb_flow: None and the empty dict both become {}.
OrEmpty(x) == IF x.kind = "none" THEN EmptyDict ELSE x.val

\* force_job_params given to neb_flow: flat keys, or flat keys and a nested
\* dict.
BaseInputs ==
    { Dict([a |-> Leaf(1), b |-> Leaf(2)]),
      Dict([a |-> Leaf(1), b |-> Leaf(2),
            n |-> Dict([x |-> Leaf(1), y |-> Leaf(2)])]) }

\* autorestart_params given to neb_flow: not given, a flat dict that overrides
\* b and adds c, or one that also overrides and extends the nested dict and
\* names copy_files itself.
AutorestartInputs ==
    { None,
      Dict([b |-> Leaf(3), c |-> Leaf(4)]),
      Dict([b |-> Leaf(3), c |-> Leaf(4),
            n |-> Dict([y |-> Leaf(3), z |-> Leaf(4)]),
            copy_files |-> Leaf(0)]) }

Methods == {"aseneb", "improvedtangent"}

\* ------------------------------------------------------------ calculators
NoCalc == [kind |-> "none"]
\* SinglePointCalculator(atoms, **results): keeps a copy of the atoms it was
\* built for and the results.
SinglePointCalculator(p, res) == [kind |-> "sp", atoms |-> p, results |-> res]

\* ase.calculators.calculator.all_properties
all_properties ==
    {"energy", "forces", "stress", "stresses", "dipole", "charges", "magmom",
     "magmoms", "free_energy", "energies", "dielectric_tensor",
     "born_effective_charges", "polarization"}

\* calc.check_state(image): non-empty list of changes iff the image differs
\* from the atoms the calculator holds.
check_state(image) == image.calc.atoms # image.pos

\* Results carried by a calculator the caller attached before the run.
UserResults(p) == [energy |-> p * p, forces |-> 0 - 2 * p, magmom |-> 5]

\* A caller's image comes with no calculator or with one that holds results
\* for its configuration.
InitCalcs == {NoCalc, SinglePointCalculator(0, UserResults(0))}

\* ---------------------------------------------------------------- state
VARIABLES
    images,             \* self.images: Idx -> [id, pos, calc]
    latest_directories, \* self.latest_directories: dict index -> dir_name
    force_job_params,   \* self.force_job_params
    autorestart_params, \* self.autorestart_params
    method,             \* self.method (neb_kwargs)
    nmoves,             \* number of configuration changes made so far
    image_idx,          \* image_idx of the get_forces call just made
    force_jobs,         \* parameters bound to each job of that call
    failed_tasks,       \* batch positions whose task failed in that call
    returned,           \* forces that call returned (<<>> when it raised)
    last,               \* last event: "init", "ok", "failed", "moved"
    entry,              \* the band as the get_forces call just made found it
    unchanged_since_ok, \* images whose configuration has not changed since
                        \* the last successful get_forces call
    initial_images,     \* self.initial_images: a list of references to the
                        \* image objects (their ids)
    history,            \* constructed: the images as they were at
                        \* construction; last_dir: per image, the directory
                        \* of its latest job in a call that succeeded
    run                 \* progress of a get_forces call made step by step

vars == <<images, latest_directories, force_job_params, autorestart_params,
          method, nmoves, image_idx, force_jobs, failed_tasks, returned,
          last, entry, unchanged_since_ok, initial_images, history, run>>

\* ------------------------------------------------------- get_forces: select
\* Variants of the staleness test with a slip in them.
NeedsCalcInverted(image) ==
    image.calc.kind = "none" \/ ~check_state(image)

NeedsCalcAlways(image) == TRUE

NeedsCalcEndpointsAlways(image) ==
    \/ image.id \in Endpoints
    \/ image.calc.kind = "none"
    \/ check_state(image)

NeedsCalcEndpointsOnce(image) ==
    \/ image.calc.kind = "none"
    \/ /\ check_state(image)
       /\ ~(method = "aseneb" /\ image.id \in Endpoints)

\* The test of plain ASE: under 'aseneb' the endpoints are never computed.
NeedsCalcVanilla(image) ==
    /\ ~(method = "aseneb" /\ image.id \in Endpoints)
    /\ (image.calc.kind = "none" \/ check_state(image))

\* `image.calc is None or image.calc.check_state(image)`
NeedsCalc(image) == image.calc.kind = "none" \/ check_state(image)

Indices == [k \in 1 .. NImages |-> k - 1]

\* The loop over enumerate(self.images): image_idx in increasing order.
select_images(imgs) == SelectSeq(Indices, LAMBDA i : NeedsCalc(imgs[i]))

\* The merge with base and autorestart parameters in the wrong order.
job_params_swapped(base, auto, latest, i) ==
    IF i \in DOMAIN latest
    THEN recursive_dict_merge(auto, base, [copy_files |-> Leaf(latest[i])])
    ELSE base

\* The merge with the directory of another image: the first one recorded.
job_params_first_dir(base, auto, latest, i) ==
    IF i \in DOMAIN latest
    THEN recursive_dict_merge(base, auto,
            [copy_files |->
                Leaf(latest[CHOOSE j \in DOMAIN latest :
                               \A h \in DOMAIN latest : j <= h])])
    ELSE base

\* The parameters bound to the job of image i.
job_params(base, auto, latest, i) ==
    IF i \in DOMAIN latest
    THEN recursive_dict_merge(base, auto, [copy_files |-> Leaf(latest[i])])
    ELSE base

\* ----------------------------------------------------- force job, dispatch
Failed == [kind |-> "failed"]

\* What the evaluator computes for a configuration; "junk" is a result entry
\* that is not a recognized property.
JobResults(p) == [energy |-> p * p, forces |-> 0 - 2 * p, junk |-> 1]

\* Every run of a force job writes to a directory of its own.  A new name only
\* has to differ from the names the band still holds, so the runs on the
\* image object `id` alternate between two names kept for that image.
Range(d) == {d[j] : j \in DOMAIN d}
fresh_dir(dirs, id) ==
    IF (2 * id + 1) \in Range(dirs) THEN 2 * id + 2 ELSE 2 * id + 1

\* The force job: a result with atoms (the job may relax the configuration),
\* results and dir_name.
force_job(atoms, params, dir) ==
    [kind |-> "done", atoms |-> (atoms.pos + 1) % (MaxPos + 1),
     results |-> JobResults(atoms.pos), dir_name |-> dir]

\* concurrent_calculate + resolve: one task per (image, job) pair, results in
\* submission order; the tasks at the positions in F fail.
concurrent_calculate(to_calc, jobs, dirs, F) ==
    [k \in 1 .. Len(to_calc) |->
        IF k \in F THEN Failed
        ELSE force_job(to_calc[k], jobs[k], fresh_dir(dirs, to_calc[k].id))]

\* resolve(results) raises when a task of the batch failed.
Raises(results) == \E k \in 1 .. Len(results) : results[k].kind = "failed"

\* ---------------------------------------------------- get_forces: write-back
\* The results passed on as they come, without the filter.
filtered_results_unfiltered(res) == res

\* `{k: v for k, v in result["results"].items() if k in all_properties}`
filtered_results(res) == [k \in (DOMAIN res) \cap all_properties |-> res[k]]

DictSet(d, key, v) == [j \in (DOMAIN d) \cup {key} |-> IF j = key THEN v ELSE d[j]]

\* An iteration that updates the results of the calculator already attached
\* instead of replacing it.
write_one_merge(st, i, result) ==
    LET new == filtered_results(result.results)
        old == IF st.imgs[i].calc.kind = "sp" THEN st.imgs[i].calc.results
               ELSE EmptyDict
    IN [imgs |-> [st.imgs EXCEPT ![i].calc =
                     SinglePointCalculator(st.imgs[i].pos,
                        [k \in (DOMAIN old) \cup (DOMAIN new) |->
                            IF k \in DOMAIN new THEN new[k] ELSE old[k]])],
        dirs |-> DictSet(st.dirs, i, result.dir_name)]

\* An iteration that also takes over the atoms the job returned.
write_one_atoms(st, i, result) ==
    [imgs |-> [st.imgs EXCEPT
                  ![i].pos = result.atoms,
                  ![i].calc = SinglePointCalculator(result.atoms,
                                  filtered_results(result.results))],
     dirs |-> DictSet(st.dirs, i, result.dir_name)]

\* An iteration that attaches the results to a calculator without atoms of
\* its own, so that the image still counts as changed.
write_one_unbound(st, i, result) ==
    [imgs |-> [st.imgs EXCEPT ![i].calc =
                  SinglePointCalculator(0 - 1, filtered_results(result.results))],
     dirs |-> DictSet(st.dirs, i, result.dir_name)]

\* One iteration of `for idx, result in zip(image_idx, results)`.
write_one(st, i, result) ==
    [imgs |-> [st.imgs EXCEPT ![i].calc =
                  SinglePointCalculator(st.imgs[i].pos, filtered_results(result.results))],
     dirs |-> DictSet(st.dirs, i, result.dir_name)]

\* The whole loop, from position k on.
RECURSIVE write_back(_, _, _, _)
write_back(st, idx, results, k) ==
    IF k > Len(idx) \/ k > Len(results) THEN st
    ELSE write_back(write_one(st, idx[k], results[k]), idx, results, k + 1)

\* A write-back that stores each result as it arrives, up to the first failed
\* task.
after_resolve_partial(imgs, dirs, idx, results) ==
    LET bad == {k \in 1 .. Len(results) : results[k].kind = "failed"}
        n == IF bad = {} THEN Len(results)
             ELSE (CHOOSE k \in bad : \A j \in bad : k <= j) - 1
    IN write_back([imgs |-> imgs, dirs |-> dirs],
                  SubSeq(idx, 1, n), SubSeq(results, 1, n), 1)

\* State of the band after resolve and the loop: untouched when resolve raised.
after_resolve(imgs, dirs, idx, results) ==
    IF Raises(results) THEN [imgs |-> imgs, dirs |-> dirs]
    ELSE write_back([imgs |-> imgs, dirs |-> dirs], idx, results, 1)

\* super().get_forces(): the band force of every interior image, from the
\* attached raw force and the positions of its two neighbours (unit spring).
super_get_forces(imgs) ==
    [k \in 1 .. (NImages - 2) |->
        imgs[k].calc.results["forces"]
          + (imgs[k + 1].pos - 2 * imgs[k].pos + imgs[k - 1].pos)]

\* Job building that merges the autorestart parameters into the base dict
\* in place.
params_after_dispatch_inplace(base, auto) ==
    [base |-> recursive_dict_pair_merge(base, auto), auto |-> auto]

\* The base and autorestart dicts the band holds after building the jobs.
params_after_dispatch(base, auto) == [base |-> base, auto |-> auto]

\* The band at the entry of a get_forces call.
NoEntry == [kind |-> "none"]
Entry == [kind |-> "call", images |-> images,
          latest_directories |-> latest_directories,
          force_job_params |-> force_job_params,
          autorestart_params |-> autorestart_params,
          returned |-> returned, last |-> last,
          unchanged_since_ok |-> unchanged_since_ok]

\* `self.images.copy()`: a new list of the same image objects.
list_copy(imgs) == [k \in 1 .. NImages |-> imgs[k - 1].id]

\* What a reference held in a list stands for: the image object as it is now.
Deref(ref) == images[ref]

\* No get_forces call is in progress.
Idle == [pc |-> "idle"]

\* The directories of the jobs of a batch that succeeded, by image index.
RecordDirs(last_dir, idx, results) ==
    [i \in (DOMAIN last_dir) \cup {idx[k] : k \in 1 .. Len(idx)} |->
        IF \E k \in 1 .. Len(idx) : idx[k] = i
        THEN results[CHOOSE k \in 1 .. Len(idx) : idx[k] = i].dir_name
        ELSE last_dir[i]]

\* ---------------------------------------------------------------- actions
Init ==
    /\ \E first \in InitCalcs, inner \in InitCalcs, final \in InitCalcs :
          images = [i \in Idx |->
                      [id |-> i, pos |-> 0,
                       calc |-> IF i = 0 THEN first
                                ELSE IF i = NImages - 1 THEN final ELSE inner]]
    /\ latest_directories = EmptyDict
    /\ \E b \in BaseInputs : force_job_params = OrEmpty(b)
    /\ \E a \in AutorestartInputs : autorestart_params = OrEmpty(a)
    /\ method \in Methods
    /\ nmoves = 0
    /\ image_idx = <<>>
    /\ force_jobs = <<>>
    /\ failed_tasks = {}
    /\ returned = <<>>
    /\ last = "init"
    /\ entry = NoEntry
    /\ unchanged_since_ok = {}
    /\ initial_images = list_copy(images)
    /\ history = [constructed |-> images, last_dir |-> EmptyDict]
    /\ run = Idle

\* One get_forces call in which the tasks at batch positions F fail.
GetForces(F) ==
    LET idx == select_images(images)
        to_calc == [k \in 1 .. Len(idx) |-> images[idx[k]]]
        jobs == [k \in 1 .. Len(idx) |->
                    job_params(force_job_params, autorestart_params,
                               latest_directories, idx[k])]
        results == concurrent_calculate(to_calc, jobs, latest_directories, F)
        st == after_resolve(images, latest_directories, idx, results)
        held == params_after_dispatch(force_job_params, autorestart_params)
    IN /\ F \subseteq 1 .. Len(idx)
       /\ entry' = Entry
       /\ image_idx' = idx
       /\ force_jobs' = jobs
       /\ failed_tasks' = F
       /\ images' = st.imgs
       /\ latest_directories' = st.dirs
       /\ force_job_params' = held.base
       /\ autorestart_params' = held.auto
       /\ IF Raises(results)
          THEN /\ last' = "failed"
               /\ returned' = <<>>
               /\ UNCHANGED <<unchanged_since_ok, history>>
          ELSE /\ last' = "ok"
               /\ returned' = super_get_forces(st.imgs)
               /\ unchanged_since_ok' = Idx
               /\ history' = [history EXCEPT
                                 !.last_dir = RecordDirs(@, idx, results)]
       /\ UNCHANGED <<method, nmoves, initial_images, run>>

GetForcesOk == GetForces({})

GetForcesFail == \E f \in 1 .. NImages : GetForces({f})

\* Between two calls the configuration of image i is changed (the optimizer
\* moves interior images; the caller may edit any image).
MoveImage ==
    \E i \in Idx, p \in Pos :
        /\ run.pc \notin {"waiting", "writing"}
        /\ run' = Idle
        /\ nmoves < MaxMoves
        /\ p # images[i].pos
        /\ nmoves' = nmoves + 1
        /\ images' = [images EXCEPT ![i].pos = p]
        /\ last' = "moved"
        /\ unchanged_since_ok' = unchanged_since_ok \ {i}
        /\ image_idx' = <<>>
        /\ force_jobs' = <<>>
        /\ failed_tasks' = {}
        /\ returned' = <<>>
        /\ entry' = NoEntry
        /\ UNCHANGED <<latest_directories, force_job_params, autorestart_params,
                       method, initial_images, history>>

Next == GetForcesOk \/ GetForcesFail \/ MoveImage

Spec == Init /\ [][Next]_vars

\* ------------------------------------------- get_forces, one step at a time
\* A task of the batch that has not finished yet.
Running == [kind |-> "running"]

\* What the end of one task changes in the band, while get_forces waits for
\* the batch: a variant that stores the result at once, and the code, which
\* stores nothing before resolve has returned.
task_end_eager(st, i, result) ==
    IF result.kind = "done" THEN write_one(st, i, result) ELSE st

task_end(st, i, result) == st

InitSteps ==
    /\ Init
    /\ method = "aseneb"
    /\ autorestart_params = EmptyDict
    /\ "n" \notin DOMAIN force_job_params

\* Lines 79-98: select, bind the parameters, submit the batch.
Submit ==
    LET idx == select_images(images)
        jobs == [k \in 1 .. Len(idx) |->
                    job_params(force_job_params, autorestart_params,
                               latest_directories, idx[k])]
    IN /\ run.pc \in {"idle", "returned", "raised"}
       /\ entry' = Entry
       /\ image_idx' = idx
       /\ force_jobs' = jobs
       /\ failed_tasks' = {}
       /\ returned' = <<>>
       /\ last' = "running"
       /\ run' = [pc |-> "waiting", batches |-> 1, waits |-> 0, written |-> 0,
                  results |-> [k \in 1 .. Len(idx) |-> Running]]
       /\ UNCHANGED <<images, latest_directories, force_job_params,
                      autorestart_params, method, nmoves, unchanged_since_ok,
                      initial_images, history>>

\* The substrate: one running task of the batch ends, with a result or with
\* a failure, in any order.
TaskEnds ==
    \E k \in 1 .. Len(image_idx), fails \in BOOLEAN :
        LET i == image_idx[k]
            result == IF fails THEN Failed
                      ELSE force_job(entry.images[i], force_jobs[k],
                                     fresh_dir(entry.latest_directories, i))
            st == task_end([imgs |-> images, dirs |-> latest_directories],
                           i, result)
        IN /\ run.pc = "waiting"
           /\ run.results[k].kind = "running"
           /\ run' = [run EXCEPT !.results[k] = result]
           /\ failed_tasks' = IF fails THEN failed_tasks \cup {k} ELSE failed_tasks
           /\ images' = st.imgs
           /\ latest_directories' = st.dirs
           /\ UNCHANGED <<force_job_params, autorestart_params, method, nmoves,
                          image_idx, force_jobs, returned, last, entry,
                          unchanged_since_ok, initial_images, history>>

\* Line 99: resolve returns once, when every task has ended, or raises.
Resolve ==
    /\ run.pc = "waiting"
    /\ \A k \in 1 .. Len(image_idx) : run.results[k].kind # "running"
    /\ IF Raises(run.results)
       THEN /\ run' = [run EXCEPT !.pc = "raised", !.waits = @ + 1]
            /\ last' = "failed"
       ELSE /\ run' = [run EXCEPT !.pc = "writing", !.waits = @ + 1]
            /\ UNCHANGED last
    /\ UNCHANGED <<images, latest_directories, force_job_params,
                   autorestart_params, method, nmoves, image_idx, force_jobs,
                   failed_tasks, returned, entry, unchanged_since_ok,
                   initial_images, history>>

\* Lines 101-109: one iteration of the write-back loop.
WriteStep ==
    LET k == run.written + 1
        st == write_one([imgs |-> images, dirs |-> latest_directories],
                        image_idx[k], run.results[k])
    IN /\ run.pc = "writing"
       /\ run.written < Len(image_idx)
       /\ images' = st.imgs
       /\ latest_directories' = st.dirs
       /\ run' = [run EXCEPT !.written = k]
       /\ UNCHANGED <<force_job_params, autorestart_params, method, nmoves,
                      image_idx, force_jobs, failed_tasks, returned, last,
                      entry, unchanged_since_ok, initial_images, history>>

\* Line 111: the band forces, after the loop.
ReturnForces ==
    /\ run.pc = "writing"
    /\ run.written = Len(image_idx)
    /\ returned' = super_get_forces(images)
    /\ last' = "ok"
    /\ unchanged_since_ok' = Idx
    /\ history' = [history EXCEPT
                      !.last_dir = RecordDirs(@, image_idx, run.results)]
    /\ run' = [run EXCEPT !.pc = "returned"]
    /\ UNCHANGED <<images, latest_directories, force_job_params,
                   autorestart_params, method, nmoves, image_idx, force_jobs,
                   failed_tasks, entry, initial_images>>

NextSteps ==
    Submit \/ TaskEnds \/ Resolve \/ WriteStep \/ ReturnForces \/ MoveImage

SpecSteps == InitSteps /\ [][NextSteps]_vars

\* ================================================================ claims
Called == entry.kind = "call"
Batch == {image_idx[k] : k \in 1 .. Len(image_idx)}
BatchPos(i) == CHOOSE k \in 1 .. Len(image_idx) : image_idx[k] = i
HasResult(image) == image.calc.kind = "sp"
NotStale(image) == HasResult(image) /\ image.calc.atoms = image.pos

\* C1: in every get_forces call, an image that has an attached result for its
\* unchanged configuration is not in the dispatched batch, and an image with
\* no attached result is in it.
C1_Selection ==
    Called =>
        \A i \in Idx :
            /\ NotStale(entry.images[i]) => i \notin Batch
            /\ ~HasResult(entry.images[i]) => i \in Batch

C1_Witness ==
    /\ Called
    /\ \E i, j \in Idx :
          /\ NotStale(entry.images[i]) /\ i \notin Batch
          /\ ~HasResult(entry.images[j]) /\ j \in Batch

\* C2: a get_forces call that directly follows a successful one, with no
\* configuration change in between, dispatches nothing, succeeds, leaves the
\* images' results and the directory record as they were and returns the same
\* forces.
C2_Idempotent ==
    (Called /\ entry.last = "ok") =>
        /\ image_idx = <<>>
        /\ last = "ok"
        /\ images = entry.images
        /\ latest_directories = entry.latest_directories
        /\ returned = entry.returned

C2_Witness ==
    /\ Called
    /\ entry.last = "ok"
    /\ DOMAIN latest_directories # {}
    /\ returned = entry.returned
    /\ returned # <<>>

\* C3: when a task of the batch fails, the call fails, returns nothing, and
\* every image and the directory record are as they were at the call's entry.
C3_NoPartialWrite ==
    (Called /\ failed_tasks # {}) =>
        /\ last = "failed"
        /\ returned = <<>>
        /\ images = entry.images
        /\ latest_directories = entry.latest_directories

C3_Witness ==
    /\ Called
    /\ failed_tasks # {}
    /\ last = "failed"
    /\ \E k \in 1 .. Len(image_idx), f \in failed_tasks : k \notin failed_tasks /\ k < f

\* C4: the job of image i gets base + autorestart + copy_files exactly when
\* autorestart is enabled (the autorestart dict is not empty) and a directory
\* is recorded for i; otherwise it gets the base parameters unmodified, with
\* no copy_files entry.
C4_RestartOnlyWhenEnabled ==
    Called =>
        \A k \in 1 .. Len(image_idx) :
            LET i == image_idx[k]
                restart == /\ entry.autorestart_params # EmptyDict
                           /\ i \in DOMAIN entry.latest_directories
            IN IF restart
               THEN force_jobs[k] =
                        recursive_dict_merge(
                            entry.force_job_params, entry.autorestart_params,
                            [copy_files |-> Leaf(entry.latest_directories[i])])
               ELSE /\ force_jobs[k] = entry.force_job_params
                    /\ "copy_files" \notin DOMAIN force_jobs[k]

\* The value the merged parameters must have under key k, two levels deep:
\* copy_files is the directory; otherwise the autorestart value wins over the
\* base value, and two dicts under one key are combined key by key with the
\* autorestart entry winning.
ExpectedValue(base, auto, dir, k) ==
    IF k = "copy_files" THEN Leaf(dir)
    ELSE IF k \notin DOMAIN auto THEN base[k]
    ELSE IF k \notin DOMAIN base THEN auto[k]
    ELSE IF base[k].kind = "dict" /\ auto[k].kind = "dict"
         THEN Dict([j \in (DOMAIN base[k].val) \cup (DOMAIN auto[k].val) |->
                       IF j \in DOMAIN auto[k].val THEN auto[k].val[j]
                       ELSE base[k].val[j]])
         ELSE auto[k]

\* C5: on the restart path the merged parameters have exactly the keys of the
\* three sources and, under each, the value of the highest-precedence source
\* (base < autorestart < copy_files), nested dicts merged key by key.
C5_MergePrecedence ==
    Called =>
        \A k \in 1 .. Len(image_idx) :
            LET i == image_idx[k]
                base == entry.force_job_params
                auto == entry.autorestart_params
            IN i \in DOMAIN entry.latest_directories =>
                  /\ DOMAIN force_jobs[k] =
                        (DOMAIN base) \cup (DOMAIN auto) \cup {"copy_files"}
                  /\ \A key \in DOMAIN force_jobs[k] :
                        force_jobs[k][key] =
                            ExpectedValue(base, auto,
                                          entry.latest_directories[i], key)

\* base {a:1,b:2}, autorestart {b:3,c:4}: the job gets {a:1,b:3,c:4,copy_files:d}.
C5_Witness ==
    /\ Called
    /\ force_job_params = [a |-> Leaf(1), b |-> Leaf(2)]
    /\ autorestart_params = [b |-> Leaf(3), c |-> Leaf(4)]
    /\ \E k \in 1 .. Len(image_idx) :
          /\ image_idx[k] \in DOMAIN entry.latest_directories
          /\ force_jobs[k] =
                [a |-> Leaf(1), b |-> Leaf(3), c |-> Leaf(4),
                 copy_files |-> Leaf(entry.latest_directories[image_idx[k]])]

\* C6: with method 'aseneb', a get_forces call made after a successful one
\* does not dispatch an endpoint whose configuration has not changed since
\* that successful call, whatever was done to the other images.
C6_EndpointsNotRedispatched ==
    (Called /\ method = "aseneb") =>
        \A e \in Endpoints :
            e \in entry.unchanged_since_ok => e \notin Batch

C6_Witness ==
    /\ Called
    /\ method = "aseneb"
    /\ Endpoints \subseteq entry.unchanged_since_ok
    /\ Batch # {}
    /\ Batch \subseteq Interior

\* C7 as stated: with 'aseneb' an endpoint that was evaluated once is never
\* dispatched again; with another method an endpoint is dispatched exactly
\* when it has no result or a stale one.
C7_Original ==
    Called =>
        \A e \in Endpoints :
            IF method = "aseneb"
            THEN e \in DOMAIN entry.latest_directories => e \notin Batch
            ELSE e \in Batch <=> ~NotStale(entry.images[e])

\* C7, amended: the selection does not look at the method; under every method
\* each image, endpoint or interior, is dispatched exactly when it has no
\* result or a stale one.
C7_SameCheckForEndpoints ==
    Called => \A i \in Idx : i \in Batch <=> ~NotStale(entry.images[i])

C7_Witness ==
    /\ Called
    /\ method = "aseneb"
    /\ \E e \in Endpoints :
          /\ e \in DOMAIN entry.latest_directories
          /\ HasResult(entry.images[e])
          /\ e \in Batch

\* C8 as stated: with a method other than 'aseneb' both endpoints are in the
\* batch of every get_forces call.
C8_Original ==
    (Called /\ method # "aseneb") => Endpoints \subseteq Batch

\* C8, amended: with a method other than 'aseneb' an endpoint is dispatched
\* when it has no result or a stale one, and is not dispatched when its
\* result is present and not stale.
C8_EndpointsOnlyWhenStale ==
    (Called /\ method # "aseneb") =>
        \A e \in Endpoints :
            IF NotStale(entry.images[e]) THEN e \notin Batch ELSE e \in Batch

C8_Witness ==
    /\ Called
    /\ method # "aseneb"
    /\ \E e \in Endpoints : NotStale(entry.images[e]) /\ e \notin Batch
    /\ Batch # {}

\* C9: after a successful call, each dispatched image i holds exactly the
\* energy and forces computed for its own configuration and the record of i
\* is the directory of i's own job; an image that was not dispatched keeps
\* its calculator and its record entry.
C9_PositionalWriteBack ==
    (Called /\ last = "ok") =>
        \A i \in Idx :
            IF i \in Batch
            THEN LET own == force_job(entry.images[i], force_jobs[BatchPos(i)],
                                      fresh_dir(entry.latest_directories, i))
                 IN /\ i \in DOMAIN latest_directories
                    /\ latest_directories[i] = own.dir_name
                    /\ images[i].calc.kind = "sp"
                    /\ images[i].calc.atoms = entry.images[i].pos
                    /\ images[i].calc.results =
                          [energy |-> own.results.energy,
                           forces |-> own.results.forces]
            ELSE /\ images[i] = entry.images[i]
                 /\ (i \in DOMAIN latest_directories)
                       <=> (i \in DOMAIN entry.latest_directories)
                 /\ i \in DOMAIN latest_directories =>
                       latest_directories[i] = entry.latest_directories[i]

C9_Witness ==
    /\ Called
    /\ last = "ok"
    /\ \E i \in Batch :
          /\ HasResult(entry.images[i])
          /\ "magmom" \in DOMAIN entry.images[i].calc.results
    /\ Cardinality(Batch) >= 2
    /\ \E j \in Idx \ Batch : j \in DOMAIN latest_directories

\* C10: no step changes the base parameters or the autorestart parameters
\* the band holds.
C10_ParamsNeverModified ==
    [][/\ force_job_params' = force_job_params
       /\ autorestart_params' = autorestart_params]_vars

C10_Witness ==
    /\ Called
    /\ autorestart_params # EmptyDict
    /\ \E k \in 1 .. Len(image_idx) :
          /\ image_idx[k] \in DOMAIN entry.latest_directories
          /\ force_jobs[k] # force_job_params
    /\ force_job_params = entry.force_job_params

\* C11: on a get_forces call made on the band as constructed, an endpoint
\* without a calculator is dispatched under every method, an image whose
\* calculator holds results for its configuration is not dispatched, and a
\* chain in which every image has such a calculator dispatches nothing.
C11_FirstCall ==
    (Called /\ entry.last = "init") =>
        /\ \A e \in Endpoints : ~HasResult(entry.images[e]) => e \in Batch
        /\ \A i \in Idx : NotStale(entry.images[i]) => i \notin Batch
        /\ (\A i \in Idx : NotStale(entry.images[i])) =>
              (image_idx = <<>> /\ last = "ok")

C11_Witness ==
    /\ Called
    /\ entry.last = "init"
    /\ method = "aseneb"
    /\ \E e, f \in Endpoints :
          /\ ~HasResult(entry.images[e]) /\ e \in Batch
          /\ NotStale(entry.images[f]) /\ f \notin Batch

\* C13: the results attached to a dispatched image are the entries of its
\* job's results mapping whose name is a recognized property, each with the
\* job's value, and no others; no image ever carries an unrecognized entry.
C13_Whitelist ==
    /\ \A i \in Idx :
          HasResult(images[i]) => DOMAIN images[i].calc.results \subseteq all_properties
    /\ (Called /\ last = "ok") =>
          \A i \in Batch :
             LET res == JobResults(entry.images[i].pos)
             IN \A key \in DOMAIN res :
                   IF key \in all_properties
                   THEN /\ key \in DOMAIN images[i].calc.results
                        /\ images[i].calc.results[key] = res[key]
                   ELSE key \notin DOMAIN images[i].calc.results

C13_Witness ==
    /\ Called
    /\ last = "ok"
    /\ \E i \in Batch :
          /\ "junk" \in DOMAIN JobResults(entry.images[i].pos)
          /\ "junk" \notin DOMAIN images[i].calc.results
          /\ "energy" \in DOMAIN images[i].calc.results

\* C18: after a successful get_forces call every image, endpoints included,
\* has an attached result with an energy that is not stale for its current
\* configuration.
C18_AllFreshAfterSuccess ==
    last = "ok" =>
        \A i \in Idx :
            /\ NotStale(images[i])
            /\ "energy" \in DOMAIN images[i].calc.results

C18_Witness ==
    /\ last = "ok"
    /\ Endpoints \subseteq Batch
    /\ \A i \in Idx : NotStale(images[i])

\* C19: a get_forces call leaves the configuration, the identity and the
\* order of the images as they were at its entry; the atoms a job returns
\* are not written back.
C19_ConfigurationUntouched ==
    Called =>
        /\ DOMAIN images = DOMAIN entry.images
        /\ \A i \in Idx :
              /\ images[i].pos = entry.images[i].pos
              /\ images[i].id = entry.images[i].id

C19_Witness ==
    /\ Called
    /\ last = "ok"
    /\ \E i \in Batch :
          /\ force_job(entry.images[i], force_jobs[BatchPos(i)], 0).atoms
                # entry.images[i].pos
          /\ images[i].pos = entry.images[i].pos

\* C16: every entry of initial_images equals the corresponding image as it
\* was when the band was constructed, configuration and attached result.
C16_SnapshotKept ==
    \A k \in 1 .. NImages :
        Deref(initial_images[k]) = history.constructed[k - 1]

C12_BatchThenWriteThenForces ==
    run.pc # "idle" =>
        /\ run.batches = 1
        /\ run.waits <= 1
        /\ Len(run.results) = Len(image_idx)
        /\ Len(image_idx) <= NImages
        /\ Batch = {i \in Idx : ~NotStale(entry.images[i])}
        /\ run.pc = "waiting" =>
              /\ run.waits = 0
              /\ images = entry.images
              /\ latest_directories = entry.latest_directories
        /\ run.written > 0 =>
              /\ run.waits = 1
              /\ \A k \in 1 .. Len(image_idx) : run.results[k].kind = "done"
        /\ run.pc = "raised" =>
              /\ images = entry.images
              /\ latest_directories = entry.latest_directories
        /\ run.pc = "returned" =>
              /\ run.written = Len(image_idx)
              /\ \A i \in Idx : NotStale(images[i])
              /\ returned = super_get_forces(images)

C12_Witness ==
    /\ run.pc = "waiting"
    /\ Len(image_idx) >= 2
    /\ \E k, j \in 1 .. Len(image_idx) :
          /\ run.results[k].kind = "done"
          /\ run.results[j].kind = "running"
          /\ j < k

=============================================================================
